---- MODULE Spec2Model ----
(***************************************************************************)
(* A model of the LS-8 emulator of src/cpu.py: class CPU, its loader, its  *)
(* twenty instruction handlers and the fetch / interrupt / dispatch loop   *)
(* of CPU.run.                                                             *)
(*                                                                         *)
(* Python values.  A register, a memory cell and the program counter hold  *)
(* Python numbers: an int (unbounded) or, after DIV, a float.  A value is  *)
(* a record [f, n, d]: f says "is a float", n/d is its numeric value in    *)
(* lowest terms (d = 1 for an int).  Only floats that IEEE-754 holds       *)
(* exactly (dyadic, small) are modelled; a step whose result is not of     *)
(* that kind is outside the bounds and is not taken.                       *)
(*                                                                         *)
(* Python faults.  An uncaught exception leaves run(); the model records   *)
(* its class in exc and stops ("raised").  What a handler assigned before  *)
(* the raising statement stays assigned.                                   *)
(***************************************************************************)
EXTENDS Integers, Sequences, FiniteSets, TLC

\* ---------------------------------------------------------------- bounds
\* Largest magnitude of a numerator the model follows.
MaxInt == 40000
\* Largest denominator of a float the model follows (a power of two).
MaxDen == 8
\* Most instructions one run dispatches.
MaxSteps == 9
\* Most whole days the wall clock is followed past construction.
MaxDays == 1

\* ------------------------------------------------------ program constants
IM == 5
IS == 6
SP == 7
ADD == 160
CALL == 80
COMP == 167
DIV == 163
HLT == 1
INC == 101
INTE == 82
IRET == 19
JEQ == 85
JMP == 84
JNE == 86
LDI == 130
MUL == 162
NOP == 0
PRA == 72
POP == 70
PRN == 71
PUSH == 69
RET == 17
ST == 132
\* len(self.ram), len(self.reg), the initial stack pointer, the vector slot
RamSize == 256
NumRegs == 8
InitSP == 244
Vector == 248
\* timedelta.seconds is the elapsed time modulo one day
DaySeconds == 86400
\* chr() accepts 0 .. 0x10FFFF
MaxChr == 1114111

Opcodes ==
  {ADD, CALL, COMP, DIV, HLT, INC, INTE, IRET, JEQ, JMP, JNE, LDI, MUL, NOP,
   POP, PRA, PRN, PUSH, RET, ST}

\* ---------------------------------------------------------- Python values
Abs(x) == IF x < 0 THEN -x ELSE x

RECURSIVE GCD(_, _)
GCD(a, b) == IF b = 0 THEN a ELSE GCD(b, a % b)

RECURSIVE IsPow2(_)
IsPow2(d) == IF d = 1 THEN TRUE ELSE IF d < 1 \/ d % 2 = 1 THEN FALSE ELSE IsPow2(d \div 2)

\* a Python int
IntV(n) == [f |-> FALSE, n |-> n, d |-> 1]

\* a Python float of value n/d (d > 0), in lowest terms
FloatV(n, d) ==
  LET g == GCD(Abs(n), d)
  IN [f |-> TRUE, n |-> n \div g, d |-> d \div g]

\* the values the model follows: exact in IEEE-754 and within the bounds
Modelled(v) == /\ Abs(v.n) <= MaxInt
               /\ v.d <= MaxDen
               /\ IsPow2(v.d)

\* a + b
VAdd(a, b) ==
  IF ~a.f /\ ~b.f THEN IntV(a.n + b.n)
  ELSE FloatV(a.n * b.d + b.n * a.d, a.d * b.d)

\* a * b
VMul(a, b) ==
  IF ~a.f /\ ~b.f THEN IntV(a.n * b.n)
  ELSE FloatV(a.n * b.n, a.d * b.d)

\* a / b, Python 3 true division (b # 0): always a float
VTrueDiv(a, b) ==
  IF b.n > 0 THEN FloatV(a.n * b.d, a.d * b.n)
  ELSE FloatV(-(a.n * b.d), a.d * (-b.n))

\* a float product or quotient of value zero with a negative operand is -0.0,
\* which the record cannot tell from 0.0
NegZero(r, a, b) == r.f /\ r.n = 0 /\ (a.n < 0 \/ b.n < 0)

\* a == b, a < b on numbers (1.0 == 1)
VEq(a, b) == a.n * b.d = b.n * a.d
VLt(a, b) == a.n * b.d < b.n * a.d

\* list[i]: "none" when i is an int in -size .. size-1, else the exception
IdxErr(i, size) ==
  IF i.f THEN "TypeError"
  ELSE IF i.n < -size \/ i.n >= size THEN "IndexError"
  ELSE "none"

\* the cell list[i] names: a negative index counts from the end
Cell(i, size) == IF i.n < 0 THEN i.n + size ELSE i.n

\* a & b for b >= 0 (Python ints are two's complement without end)
RECURSIVE BitAnd(_, _)
BitAnd(a, b) ==
  IF b = 0 THEN 0
  ELSE (a % 2) * (b % 2) + 2 * BitAnd(a \div 2, b \div 2)

\* ------------------------------------------------------------------ state
VARIABLES
  ram,                  \* self.ram
  reg,                  \* self.reg
  pc,                   \* self.pc
  fl,                   \* self.fl
  running,              \* self.running
  interrupts_disabled,  \* self.interrupts_disabled
  last_time,            \* self.last_time, whole seconds since construction
  now,                  \* the last reading of datetime.now()
  out,                  \* what print() has written, in order
  exc,                  \* the uncaught exception, or "none"
  at,                   \* where the caller and run() stand
  program,              \* the byte list load() copied into memory
  steps,                \* history: instructions dispatched so far
  irq,                  \* history: the last interrupt check took the interrupt
  h1,                   \* history: the machine before the last dispatch
  h2,                   \* history: the machine before the dispatch before it
  lastCall              \* history: the last completed CALL

vars ==
  <<ram, reg, pc, fl, running, interrupts_disabled, last_time, now, out, exc,
    at, program, steps, irq, h1, h2, lastCall>>

\* the machine as one record, the form the handlers work on
M ==
  [ram |-> ram, reg |-> reg, pc |-> pc, fl |-> fl, running |-> running,
   interrupts_disabled |-> interrupts_disabled, last_time |-> last_time,
   out |-> out, exc |-> "none"]

Raise(s, e) == [s EXCEPT !.exc = e]

\* ------------------------------------------------------- memory, operands
\* CPU.ram_read / CPU.ram_write, for an index IdxErr accepts
ram_read(s, mar) == s.ram[Cell(mar, RamSize)]

ram_write(s, mar, mdr) == [s EXCEPT !.ram[Cell(mar, RamSize)] = mdr]

\* self.ram_read(self.pc + k): its index, its exception, its value
OpAddr(s, k) == VAdd(s.pc, IntV(k))
OpErr(s, k) == IdxErr(OpAddr(s, k), RamSize)
Operand(s, k) == ram_read(s, OpAddr(s, k))

\* self.reg[self.ram_read(self.pc + k)]: its exception, its cell, its value.
\* The operand byte indexes the register list as it is: no masking.
RegErr(s, k) ==
  IF OpErr(s, k) # "none" THEN OpErr(s, k) ELSE IdxErr(Operand(s, k), NumRegs)
RegOf(s, k) == Cell(Operand(s, k), NumRegs)
RegVal(s, k) == s.reg[RegOf(s, k)]

\* self.pc += k
Advance(s, k) == [s EXCEPT !.pc = VAdd(s.pc, IntV(k))]

\* print(x), by the function that prints
Emit(s, fn, v) == [s EXCEPT !.out = Append(s.out, [fn |-> fn, v |-> v])]

\* --------------------------------------------------------------- handlers
\* hlt stepping over its own byte, as nop does
hlt_advance(s) == Advance([s EXCEPT !.running = FALSE], 1)

hlt(s) == [s EXCEPT !.running = FALSE]

\* alu reporting a zero divisor without halting
alu_nohalt(s, op, reg_a, reg_b) ==
  LET ea == IdxErr(reg_a, NumRegs)
      eb == IdxErr(reg_b, NumRegs)
      a == Cell(reg_a, NumRegs)
      b == Cell(reg_b, NumRegs)
  IN IF eb # "none" THEN Raise(s, eb)
     ELSE IF op = "DIV" /\ VEq(s.reg[b], IntV(0)) THEN Emit(s, "alu", IntV(0))
     ELSE IF ea # "none" THEN Raise(s, ea)
     ELSE IF op = "ADD" THEN [s EXCEPT !.reg[a] = VAdd(s.reg[a], s.reg[b])]
     ELSE IF op = "MUL" THEN [s EXCEPT !.reg[a] = VMul(s.reg[a], s.reg[b])]
     ELSE [s EXCEPT !.reg[a] = VTrueDiv(s.reg[a], s.reg[b])]

\* an int result kept to 8 bits
Mask8(v) == IF v.f THEN v ELSE IntV(v.n % RamSize)

\* alu wrapping its sums and products to 8 bits
alu_masked(s, op, reg_a, reg_b) ==
  LET ea == IdxErr(reg_a, NumRegs)
      eb == IdxErr(reg_b, NumRegs)
      a == Cell(reg_a, NumRegs)
      b == Cell(reg_b, NumRegs)
  IN CASE op = "ADD" ->
            IF ea # "none" THEN Raise(s, ea)
            ELSE IF eb # "none" THEN Raise(s, eb)
            ELSE [s EXCEPT !.reg[a] = Mask8(VAdd(s.reg[a], s.reg[b]))]
       [] op = "MUL" ->
            IF ea # "none" THEN Raise(s, ea)
            ELSE IF eb # "none" THEN Raise(s, eb)
            ELSE IF NegZero(VMul(s.reg[a], s.reg[b]), s.reg[a], s.reg[b])
              THEN Raise(s, "unmodelled")
            ELSE [s EXCEPT !.reg[a] = Mask8(VMul(s.reg[a], s.reg[b]))]
       [] op = "DIV" ->
            IF eb # "none" THEN Raise(s, eb)
            ELSE IF VEq(s.reg[b], IntV(0))
              THEN hlt(Emit(s, "alu", IntV(0)))
            ELSE IF ea # "none" THEN Raise(s, ea)
            ELSE IF NegZero(VTrueDiv(s.reg[a], s.reg[b]), s.reg[a], s.reg[b])
              THEN Raise(s, "unmodelled")
            ELSE [s EXCEPT !.reg[a] = VTrueDiv(s.reg[a], s.reg[b])]
       [] OTHER -> Raise(s, "Exception")

\* CPU.alu; reg_a and reg_b are the operand bytes as read
alu(s, op, reg_a, reg_b) ==
  LET ea == IdxErr(reg_a, NumRegs)
      eb == IdxErr(reg_b, NumRegs)
      a == Cell(reg_a, NumRegs)
      b == Cell(reg_b, NumRegs)
  IN CASE op = "ADD" ->
            IF ea # "none" THEN Raise(s, ea)
            ELSE IF eb # "none" THEN Raise(s, eb)
            ELSE [s EXCEPT !.reg[a] = VAdd(s.reg[a], s.reg[b])]
       [] op = "SUB" ->
            IF ea # "none" THEN Raise(s, ea)
            ELSE IF eb # "none" THEN Raise(s, eb)
            ELSE [s EXCEPT !.reg[a] = VAdd(s.reg[a], VMul(IntV(-1), s.reg[b]))]
       [] op = "MUL" ->
            IF ea # "none" THEN Raise(s, ea)
            ELSE IF eb # "none" THEN Raise(s, eb)
            ELSE IF NegZero(VMul(s.reg[a], s.reg[b]), s.reg[a], s.reg[b])
              THEN Raise(s, "unmodelled")
            ELSE [s EXCEPT !.reg[a] = VMul(s.reg[a], s.reg[b])]
       [] op = "DIV" ->
            IF eb # "none" THEN Raise(s, eb)
            ELSE IF VEq(s.reg[b], IntV(0))
              THEN hlt(Emit(s, "alu", IntV(0)))
            ELSE IF ea # "none" THEN Raise(s, ea)
            ELSE IF NegZero(VTrueDiv(s.reg[a], s.reg[b]), s.reg[a], s.reg[b])
              THEN Raise(s, "unmodelled")
            ELSE [s EXCEPT !.reg[a] = VTrueDiv(s.reg[a], s.reg[b])]
       [] OTHER -> Raise(s, "Exception")

\* the shape of add, mul and div: read both operand bytes, alu, pc += 3
AluOp(s, op) ==
  IF OpErr(s, 1) # "none" THEN Raise(s, OpErr(s, 1))
  ELSE IF OpErr(s, 2) # "none" THEN Raise(s, OpErr(s, 2))
  ELSE LET t == alu(s, op, Operand(s, 1), Operand(s, 2))
       IN IF t.exc # "none" THEN t ELSE Advance(t, 3)

add(s) == AluOp(s, "ADD")

mul(s) == AluOp(s, "MUL")

div(s) == AluOp(s, "DIV")

call(s) ==
  LET s1 == [s EXCEPT !.reg[SP] = VAdd(s.reg[SP], IntV(-1))]
      e1 == IdxErr(s1.reg[SP], RamSize)
      s2 == ram_write(s1, s1.reg[SP], VAdd(s1.pc, IntV(2)))
  IN IF e1 # "none" THEN Raise(s1, e1)
     ELSE IF RegErr(s2, 1) # "none" THEN Raise(s2, RegErr(s2, 1))
     ELSE [s2 EXCEPT !.pc = RegVal(s2, 1)]

\* a | b for a, b >= 0
BitOr(a, b) == a + b - BitAnd(a, b)

\* comp setting its bit on top of the bits FL holds
comp_or(s) ==
  IF RegErr(s, 1) # "none" THEN Raise(s, RegErr(s, 1))
  ELSE IF RegErr(s, 2) # "none" THEN Raise(s, RegErr(s, 2))
  ELSE LET registerA == RegVal(s, 1)
           registerB == RegVal(s, 2)
           t == IF VEq(registerA, registerB) THEN [s EXCEPT !.fl = BitOr(s.fl, 1)]
                ELSE IF VLt(registerA, registerB) THEN [s EXCEPT !.fl = BitOr(s.fl, 4)]
                ELSE IF VLt(registerB, registerA) THEN [s EXCEPT !.fl = BitOr(s.fl, 2)]
                ELSE s
       IN Advance(t, 3)

comp(s) ==
  IF RegErr(s, 1) # "none" THEN Raise(s, RegErr(s, 1))
  ELSE IF RegErr(s, 2) # "none" THEN Raise(s, RegErr(s, 2))
  ELSE LET registerA == RegVal(s, 1)
           registerB == RegVal(s, 2)
           t == IF VEq(registerA, registerB) THEN [s EXCEPT !.fl = 1]
                ELSE IF VLt(registerA, registerB) THEN [s EXCEPT !.fl = 4]
                ELSE IF VLt(registerB, registerA) THEN [s EXCEPT !.fl = 2]
                ELSE s
       IN Advance(t, 3)

inc(s) == s

inte(s) == s

\* iret re-enabling interrupts, the last line of its TODO
iret_enable(s) == [s EXCEPT !.interrupts_disabled = FALSE]

iret(s) == s

\* jeq consuming the flags it has tested
jeq_clear(s) ==
  IF s.fl % 2 = 1
    THEN IF RegErr(s, 1) # "none" THEN Raise(s, RegErr(s, 1))
         ELSE [s EXCEPT !.pc = RegVal(s, 1), !.fl = 0]
    ELSE Advance([s EXCEPT !.fl = 0], 2)

jeq(s) ==
  IF s.fl % 2 = 1
    THEN IF RegErr(s, 1) # "none" THEN Raise(s, RegErr(s, 1))
         ELSE [s EXCEPT !.pc = RegVal(s, 1)]
    ELSE Advance(s, 2)

jmp(s) ==
  IF RegErr(s, 1) # "none" THEN Raise(s, RegErr(s, 1))
  ELSE [s EXCEPT !.pc = RegVal(s, 1)]

\* jne testing the whole of FL, not its Equal bit
jne_whole(s) ==
  IF s.fl = 0
    THEN IF RegErr(s, 1) # "none" THEN Raise(s, RegErr(s, 1))
         ELSE [s EXCEPT !.pc = RegVal(s, 1)]
    ELSE Advance(s, 2)

jne(s) ==
  IF s.fl % 2 = 0
    THEN IF RegErr(s, 1) # "none" THEN Raise(s, RegErr(s, 1))
         ELSE [s EXCEPT !.pc = RegVal(s, 1)]
    ELSE Advance(s, 2)

\* ldi advancing by the length of a two-byte instruction
ldi_short(s) ==
  IF OpErr(s, 2) # "none" THEN Raise(s, OpErr(s, 2))
  ELSE IF RegErr(s, 1) # "none" THEN Raise(s, RegErr(s, 1))
  ELSE Advance([s EXCEPT !.reg[RegOf(s, 1)] = Operand(s, 2)], 2)

ldi(s) ==
  IF OpErr(s, 2) # "none" THEN Raise(s, OpErr(s, 2))
  ELSE IF RegErr(s, 1) # "none" THEN Raise(s, RegErr(s, 1))
  ELSE Advance([s EXCEPT !.reg[RegOf(s, 1)] = Operand(s, 2)], 3)

nop(s) == Advance(s, 1)

pop(s) ==
  LET e1 == IdxErr(s.reg[SP], RamSize)
      s1 == [s EXCEPT !.reg[RegOf(s, 1)] = ram_read(s, s.reg[SP])]
      s2 == [s1 EXCEPT !.reg[SP] = VAdd(s1.reg[SP], IntV(1))]
  IN IF e1 # "none" THEN Raise(s, e1)
     ELSE IF RegErr(s, 1) # "none" THEN Raise(s, RegErr(s, 1))
     ELSE Advance(s2, 2)

pra(s) ==
  IF RegErr(s, 1) # "none" THEN Raise(s, RegErr(s, 1))
  ELSE IF RegVal(s, 1).f THEN Raise(s, "TypeError")
  ELSE IF RegVal(s, 1).n < 0 \/ RegVal(s, 1).n > MaxChr THEN Raise(s, "ValueError")
  ELSE Emit(s, "pra", RegVal(s, 1))

\* prn that, like pra, does not advance
prn_stay(s) ==
  IF RegErr(s, 1) # "none" THEN Raise(s, RegErr(s, 1))
  ELSE Emit(s, "prn", RegVal(s, 1))

prn(s) ==
  IF RegErr(s, 1) # "none" THEN Raise(s, RegErr(s, 1))
  ELSE Advance(Emit(s, "prn", RegVal(s, 1)), 2)

\* push writing at SP before it decrements SP
push_late(s) ==
  LET s1 == [s EXCEPT !.reg[SP] = VAdd(s.reg[SP], IntV(-1))]
      e2 == IdxErr(s.reg[SP], RamSize)
  IN IF RegErr(s, 1) # "none" THEN Raise(s1, RegErr(s, 1))
     ELSE IF e2 # "none" THEN Raise(s1, e2)
     ELSE Advance(ram_write(s1, s.reg[SP], RegVal(s, 1)), 2)

push(s) ==
  LET s1 == [s EXCEPT !.reg[SP] = VAdd(s.reg[SP], IntV(-1))]
      e2 == IdxErr(s1.reg[SP], RamSize)
  IN IF RegErr(s1, 1) # "none" THEN Raise(s1, RegErr(s1, 1))
     ELSE IF e2 # "none" THEN Raise(s1, e2)
     ELSE Advance(ram_write(s1, s1.reg[SP], RegVal(s1, 1)), 2)

\* ret leaving the return address in its cell
ret_keep(s) ==
  LET e1 == IdxErr(s.reg[SP], RamSize)
      s1 == [s EXCEPT !.pc = ram_read(s, s.reg[SP])]
  IN IF e1 # "none" THEN Raise(s, e1)
     ELSE [s1 EXCEPT !.reg[SP] = VAdd(s1.reg[SP], IntV(1))]

ret(s) ==
  LET e1 == IdxErr(s.reg[SP], RamSize)
      s1 == [s EXCEPT !.pc = ram_read(s, s.reg[SP])]
      s2 == ram_write(s1, s1.reg[SP], IntV(0))
  IN IF e1 # "none" THEN Raise(s, e1)
     ELSE [s2 EXCEPT !.reg[SP] = VAdd(s2.reg[SP], IntV(1))]

st(s) ==
  IF RegErr(s, 1) # "none" THEN Raise(s, RegErr(s, 1))
  ELSE IF RegErr(s, 2) # "none" THEN Raise(s, RegErr(s, 2))
  ELSE IF IdxErr(RegVal(s, 1), RamSize) # "none"
    THEN Raise(s, IdxErr(RegVal(s, 1), RamSize))
  ELSE Advance(ram_write(s, RegVal(s, 1), RegVal(s, 2)), 3)

\* ------------------------------------------------- the interrupt block
\* bin(m)[::-1] without its "b0" tail, m >= 0: the digits, lowest first
RECURSIVE Bits(_)
Bits(m) == IF m < 2 THEN <<m>> ELSE <<m % 2>> \o Bits(m \div 2)

\* (now - self.last_time).seconds
Seconds(d) == d % DaySeconds

\* self.reg[SP] -= 1; self.ram_write(self.reg[SP], v), for each v in turn
RECURSIVE PushAll(_, _)
PushAll(s, vals) ==
  IF vals = <<>> THEN s
  ELSE LET s1 == [s EXCEPT !.reg[SP] = VAdd(s.reg[SP], IntV(-1))]
           e1 == IdxErr(s1.reg[SP], RamSize)
       IN IF e1 # "none" THEN Raise(s1, e1)
          ELSE PushAll(ram_write(s1, s1.reg[SP], Head(vals)), Tail(vals))

\* the registers the context save pushes: self.reg[:6]
Saved(s) == [i \in 1..6 |-> s.reg[i - 1]]

\* the body vectoring PC before it saves the context
Service_early(s, t) ==
  LET s1 == [s EXCEPT !.interrupts_disabled = TRUE, !.reg[IS] = IntV(0),
                      !.pc = ram_read(s, IntV(Vector))]
      s2 == PushAll(s1, <<s1.pc, IntV(s1.fl)>> \o Saved(s1))
  IN IF s2.exc # "none" THEN s2
     ELSE [s2 EXCEPT !.last_time = t]

\* the body of the first set bit: latch, clear IS, save, vector
Service(s, t) ==
  LET s1 == [s EXCEPT !.interrupts_disabled = TRUE, !.reg[IS] = IntV(0)]
      s2 == PushAll(s1, <<s1.pc, IntV(s1.fl)>> \o Saved(s1))
  IN IF s2.exc # "none" THEN s2
     ELSE [s2 EXCEPT !.pc = ram_read(s2, IntV(Vector)), !.last_time = t]

\* the clock is read only when this holds
Armed(s) == ~s.interrupts_disabled /\ ~s.reg[IM].f /\ s.reg[IM].n % 2 = 1

\* lines 402-423 of run(), with t the reading of datetime.now()
Interrupt(s, t) ==
  IF s.interrupts_disabled THEN s
  ELSE IF s.reg[IM].f THEN Raise(s, "TypeError")
  ELSE IF s.reg[IM].n % 2 = 0 THEN s
  ELSE IF Seconds(t - s.last_time) < 1 THEN s
  ELSE LET s1 == [s EXCEPT !.reg[IS] = IntV(1)]
           maskedInterrupts == BitAnd(s1.reg[IM].n, s1.reg[IS].n)
           digits == Bits(maskedInterrupts)
       IN IF \E idx \in 1..Len(digits) : digits[idx] = 1
            THEN Service(s1, t)
            ELSE s1

\* the readings datetime.now() may give once it has given t0: the clock does
\* not run backwards; followed to whole days, and one second past each
Readings(t0) ==
  {t \in {d * DaySeconds + k : d \in 0..MaxDays, k \in 0..1} : t >= t0}

\* ------------------------------------------------------ the programs loaded
I0(op) == <<op>>
I1(op, a) == <<op, a>>
I2(op, a, b) == <<op, a, b>>

\* the program load() hardcodes when no file is named
Print8 == <<LDI, 0, 8, PRN, 0, HLT>>

\* code, then NOPs up to the vector slot, then the handler's address
WithVector(code, x) ==
  code \o [i \in 1..(Vector - Len(code)) |-> NOP] \o <<x>>

Imm == {0, 1, 8, 65, 244, 255}

LdiPrograms ==
  {I2(LDI, r, v) \o I0(HLT) : r \in 0..8, v \in Imm}

StackPrograms ==
  {I2(LDI, SP, s) \o I2(LDI, ra, v) \o I1(PUSH, ra) \o I1(POP, rb) \o I0(HLT) :
     s \in {0, 1, 8, 10, 244, 255}, ra \in 0..7, rb \in 0..7, v \in {1, 9}}

\* 0: LDI SP,s  3: LDI r,A  6: CALL r  8: HLT  9: RET  10: NOP  11: RET
\* 12: PUSH 0  14: POP 0  16: RET  17: PUSH 0  19: RET
CallPrograms ==
  {I2(LDI, SP, s) \o I2(LDI, r, A) \o I1(CALL, r) \o I0(HLT) \o I0(RET)
     \o I0(NOP) \o I0(RET) \o I1(PUSH, 0) \o I1(POP, 0) \o I0(RET)
     \o I1(PUSH, 0) \o I0(RET) :
     s \in {0, 1, 8, 10, 244}, r \in {0, 1, 7}, A \in {6, 9, 10, 12, 17}}

CompPrograms ==
  {I2(LDI, 0, x) \o I2(LDI, 1, y) \o I2(COMP, 0, 1) \o I2(COMP, a, b)
     \o I1(j, r) \o I0(HLT) :
     x \in {1, 2}, y \in {1, 2}, a \in {0, 1}, b \in {0, 1},
     j \in {JEQ, JNE, JMP}, r \in {0, 1, 8}}

JumpPrograms ==
  {I2(LDI, 0, v) \o I1(j, 0) \o I0(HLT) :
     v \in {5, 255}, j \in {JEQ, JNE, JMP}}

AluPrograms ==
  {I2(LDI, 0, x) \o I2(LDI, 1, y) \o I2(op, a, b) \o k \o I0(HLT) :
     x \in {0, 3, 6}, y \in {0, 2, 255}, op \in {ADD, MUL, DIV},
     a \in {0, 1, 9}, b \in {0, 1, 9},
     k \in {I1(PRN, 0), I1(PRA, 0), I1(JMP, 0), I1(PUSH, 0), I2(ST, 0, 1),
            I2(ST, 1, 0), I2(COMP, 0, 1)}}

\* 0: LDI SP,s  3: LDI IM,m  6: NOP  7: NOP  8: HLT  9: IRET  10: HLT
IrqPrograms ==
  {WithVector(I2(LDI, SP, s) \o I2(LDI, IM, m) \o I0(NOP) \o I0(NOP) \o I0(HLT)
              \o I0(IRET) \o I0(HLT), x) :
     s \in {0, 5, 244, 249, 252}, m \in {0, 1, 2, 3}, x \in {0, 8, 9}}

\* 0: LDI IM,1  3: LDI R0,v  6: COMP R0,R1  9: NOP  10: HLT, handler at 10
FlagIrqPrograms ==
  {WithVector(I2(LDI, IM, 1) \o I2(LDI, 0, v) \o I2(COMP, 0, 1) \o I0(NOP)
              \o I0(HLT), 10) : v \in {0, 1}}

OtherPrograms ==
  {Print8, <<>>, I0(INC), I0(INTE), I0(IRET), I0(HLT), I0(255), I0(2),
   I2(LDI, 0, 65) \o I1(PRA, 0) \o I0(HLT),
   I2(LDI, 0, 2) \o I0(NOP) \o I1(PRN, 0) \o I0(INC),
   I2(LDI, 0, 3) \o I0(INTE)}

Programs ==
  LdiPrograms \cup StackPrograms \cup CallPrograms \cup CompPrograms
    \cup JumpPrograms \cup AluPrograms \cup IrqPrograms \cup FlagIrqPrograms
    \cup OtherPrograms

\* ---------------------------------------------------------------- actions
\* CPU.__init__; the clock starts at the construction time
NoHistory ==
  [op |-> -1, pc |-> IntV(0), fl |-> 0, irq |-> FALSE,
   reg |-> [i \in 0..(NumRegs - 1) |-> IntV(0)],
   ram |-> [a \in 0..(RamSize - 1) |-> IntV(0)]]

Init ==
  /\ ram = [a \in 0..(RamSize - 1) |-> IntV(0)]
  /\ running = FALSE
  /\ interrupts_disabled = FALSE
  /\ last_time = 0
  /\ now = 0
  /\ pc = IntV(0)
  /\ fl = 0
  /\ reg = [i \in 0..(NumRegs - 1) |-> IF i = SP THEN IntV(InitSP) ELSE IntV(0)]
  /\ out = <<>>
  /\ exc = "none"
  /\ at = "constructed"
  /\ program = <<>>
  /\ steps = 0
  /\ irq = FALSE
  /\ h1 = NoHistory
  /\ h2 = NoHistory
  /\ lastCall = [p |-> 0, sp |-> 0, made |-> FALSE]

\* the copy loop of load(): self.ram[address] = instruction, from address 0
Image(mem, prog) ==
  [a \in 0..(RamSize - 1) |-> IF a < Len(prog) THEN IntV(prog[a + 1]) ELSE mem[a]]

load ==
  /\ at = "constructed"
  /\ \E prog \in Programs :
       /\ program' = prog
       /\ ram' = Image(ram, prog)
  /\ at' = "loaded"
  /\ UNCHANGED <<reg, pc, fl, running, interrupts_disabled, last_time, now, out,
                 exc, steps, irq, h1, h2, lastCall>>

\* run(): self.running = True
run ==
  /\ at = "loaded"
  /\ running' = TRUE
  /\ at' = "while"
  /\ UNCHANGED <<ram, reg, pc, fl, interrupts_disabled, last_time, now, out, exc,
                 program, steps, irq, h1, h2, lastCall>>

\* while self.running: false, run() returns
Return ==
  /\ at = "while"
  /\ ~running
  /\ at' = "returned"
  /\ UNCHANGED <<ram, reg, pc, fl, running, interrupts_disabled, last_time, now,
                 out, exc, program, steps, irq, h1, h2, lastCall>>

\* every value a step leaves is one the model follows
InBounds(s) ==
  /\ s.exc # "unmodelled"
  /\ Modelled(s.pc)
  /\ \A i \in 0..(NumRegs - 1) : Modelled(s.reg[i])

\* the machine becomes s
Becomes(s) ==
  /\ ram' = s.ram
  /\ reg' = s.reg
  /\ pc' = s.pc
  /\ fl' = s.fl
  /\ running' = s.running
  /\ interrupts_disabled' = s.interrupts_disabled
  /\ last_time' = s.last_time
  /\ out' = s.out
  /\ exc' = s.exc

\* while self.running: true, the interrupt block runs, then line 424 is next
InterruptCheck ==
  /\ at = "while"
  /\ running
  /\ \E t \in Readings(now) :
       /\ (~Armed(M)) => t = now
       /\ now' = t
       /\ InBounds(Interrupt(M, t))
       /\ Becomes(Interrupt(M, t))
       /\ irq' = (Interrupt(M, t).interrupts_disabled /\ ~interrupts_disabled)
       /\ at' = IF Interrupt(M, t).exc # "none" THEN "raised" ELSE "dispatch"
  /\ UNCHANGED <<program, steps, h1, h2, lastCall>>

\* self.ram[self.pc] can be read
CanFetch == IdxErr(pc, RamSize) = "none"

\* a lookup that falls back on NOP's handler: dispatch.get(byte, self.nop)
Fetched_default(op) ==
  /\ CanFetch
  /\ \/ VEq(ram_read(M, pc), IntV(op))
     \/ op = NOP /\ \A o \in Opcodes : ~VEq(ram_read(M, pc), IntV(o))

\* self.dispatch[self.ram[self.pc]] finds the handler of op (1.0 finds HLT's)
Fetched(op) == CanFetch /\ VEq(ram_read(M, pc), IntV(op))

\* line 424 with the handler of op, which leaves the machine as s
Dispatch(op, s) ==
  /\ at = "dispatch"
  /\ steps < MaxSteps
  /\ Fetched(op)
  /\ InBounds(s)
  /\ Becomes(s)
  /\ at' = IF s.exc # "none" THEN "raised" ELSE "while"
  /\ steps' = steps + 1
  /\ h1' = [op |-> op, pc |-> pc, fl |-> fl, irq |-> irq, reg |-> reg, ram |-> ram]
  /\ h2' = h1
  /\ lastCall' = IF op = CALL /\ s.exc = "none"
                   THEN [p |-> pc.n, sp |-> s.reg[SP].n, made |-> TRUE]
                   ELSE lastCall
  /\ UNCHANGED <<now, program, irq>>

DoADD == Dispatch(ADD, add(M))
DoCALL == Dispatch(CALL, call(M))
DoCOMP == Dispatch(COMP, comp(M))
DoDIV == Dispatch(DIV, div(M))
DoHLT == Dispatch(HLT, hlt(M))
DoINC == Dispatch(INC, inc(M))
DoINTE == Dispatch(INTE, inte(M))
DoIRET == Dispatch(IRET, iret(M))
DoJEQ == Dispatch(JEQ, jeq(M))
DoJMP == Dispatch(JMP, jmp(M))
DoJNE == Dispatch(JNE, jne(M))
DoLDI == Dispatch(LDI, ldi(M))
DoMUL == Dispatch(MUL, mul(M))
DoNOP == Dispatch(NOP, nop(M))
DoPOP == Dispatch(POP, pop(M))
DoPRA == Dispatch(PRA, pra(M))
DoPRN == Dispatch(PRN, prn(M))
DoPUSH == Dispatch(PUSH, push(M))
DoRET == Dispatch(RET, ret(M))
DoST == Dispatch(ST, st(M))

\* what line 424 raises before any handler runs: self.ram[self.pc] fails, or
\* the byte is no key of self.dispatch
FetchError ==
  IF ~CanFetch THEN IdxErr(pc, RamSize)
  ELSE IF \E op \in Opcodes : Fetched(op) THEN "none"
  ELSE "KeyError"

BadFetch ==
  /\ at = "dispatch"
  /\ steps < MaxSteps
  /\ FetchError # "none"
  /\ exc' = FetchError
  /\ at' = "raised"
  /\ UNCHANGED <<ram, reg, pc, fl, running, interrupts_disabled, last_time, now,
                 out, program, steps, irq, h1, h2, lastCall>>

Next ==
  \/ load
  \/ run
  \/ Return
  \/ InterruptCheck
  \/ DoADD
  \/ DoCALL
  \/ DoCOMP
  \/ DoDIV
  \/ DoHLT
  \/ DoINC
  \/ DoINTE
  \/ DoIRET
  \/ DoJEQ
  \/ DoJMP
  \/ DoJNE
  \/ DoLDI
  \/ DoMUL
  \/ DoNOP
  \/ DoPOP
  \/ DoPRA
  \/ DoPRN
  \/ DoPUSH
  \/ DoRET
  \/ DoST
  \/ BadFetch

Spec == Init /\ [][Next]_vars

\* ----------------------------------------------------------------- claims
\* the state stands at line 424 and the byte at PC is the int op
AtOpcode(op) ==
  at = "dispatch" /\ steps < MaxSteps /\ CanFetch /\ ram_read(M, pc) = IntV(op)

\* the byte k places after PC is an int in lo..hi
ByteIn(s, k, lo, hi) ==
  /\ OpErr(s, k) = "none"
  /\ ~Operand(s, k).f
  /\ Operand(s, k).n \in lo..hi

\* C1: one step that executes LDI r,v, r in 0..7 and v in 0..255, leaves
\* register r equal to v, advances PC by exactly 3 and changes no other
\* register, no memory cell and not FL.
C1_LdiLoads ==
  [][(AtOpcode(LDI) /\ ByteIn(M, 1, 0, 7) /\ ByteIn(M, 2, 0, 255))
       => /\ exc' = "none"
          /\ reg' = [reg EXCEPT ![Operand(M, 1).n] = Operand(M, 2)]
          /\ pc' = VAdd(pc, IntV(3))
          /\ ram' = ram
          /\ fl' = fl]_vars

\* an LDI R7,255 has run: SP is 255, PC is 3 further
C1_Witness ==
  /\ at = "while"
  /\ h1.op = LDI
  /\ Operand(h1, 1) = IntV(SP)
  /\ Operand(h1, 2) = IntV(255)
  /\ reg[SP] = IntV(255)
  /\ pc = VAdd(h1.pc, IntV(3))

\* the cell the memory list takes index i for
Slot(i) == Cell(IntV(i), RamSize)

\* C2: PUSH ra immediately followed by POP rb (no interrupt taken between),
\* ra, rb in 0..6, SP in 1..255 before the PUSH, the stack cell none of the two
\* instructions' four bytes: afterwards rb holds what ra held before the PUSH,
\* SP is its pre-PUSH value, PC has advanced by 4, every register other than
\* rb is as before the PUSH.  Stated on the POP step, h1 being the PUSH.
C2_PushPop ==
  [][(/\ AtOpcode(POP)
      /\ ByteIn(M, 1, 0, 6)
      /\ h1.op = PUSH
      /\ ~irq
      /\ pc = VAdd(h1.pc, IntV(2))
      /\ ByteIn(h1, 1, 0, 6)
      /\ ~h1.reg[SP].f
      /\ h1.reg[SP].n \in 1..255
      /\ \A k \in 0..3 : h1.reg[SP].n - 1 # Slot(h1.pc.n + k))
       => /\ exc' = "none"
          /\ reg'[Operand(M, 1).n] = h1.reg[Operand(h1, 1).n]
          /\ reg'[SP] = h1.reg[SP]
          /\ pc' = VAdd(h1.pc, IntV(4))
          /\ \A r \in 0..(NumRegs - 1) :
               r # Operand(M, 1).n => reg'[r] = h1.reg[r]]_vars

\* PUSH R1 with R1 = 9, then POP R2, has run
C2_Witness ==
  /\ at = "while"
  /\ h2.op = PUSH
  /\ h1.op = POP
  /\ ~h1.irq
  /\ h1.pc = VAdd(h2.pc, IntV(2))
  /\ Operand(h2, 1) = IntV(1)
  /\ Operand(h1, 1) = IntV(2)
  /\ h2.reg[1] = IntV(9)
  /\ h2.reg[SP] = IntV(InitSP)
  /\ h2.reg[2] # IntV(9)
  /\ reg[2] = IntV(9)
  /\ reg[SP] = h2.reg[SP]

\* the CALL at PC, operand register among R0..hi, SP - 1 an index the memory
\* list accepts
CallAt(hi) ==
  /\ AtOpcode(CALL)
  /\ ByteIn(M, 1, 0, hi)
  /\ IdxErr(VAdd(reg[SP], IntV(-1)), RamSize) = "none"

\* what the claim says a CALL does
CallEffect ==
  /\ exc' = "none"
  /\ reg'[SP] = VAdd(reg[SP], IntV(-1))
  /\ ram' = [ram EXCEPT ![Slot(reg[SP].n - 1)] = VAdd(pc, IntV(2))]
  /\ pc' = reg[Operand(M, 1).n]

\* a RET while SP is what the last CALL left and the cell still holds that
\* CALL's return address
RetOfCall ==
  /\ AtOpcode(RET)
  /\ lastCall.made
  /\ reg[SP] = IntV(lastCall.sp)
  /\ ram[Slot(lastCall.sp)] = IntV(lastCall.p + 2)

RetEffect ==
  /\ exc' = "none"
  /\ pc' = IntV(lastCall.p + 2)
  /\ reg'[SP] = IntV(lastCall.sp + 1)
  /\ ram'[Slot(lastCall.sp)] = IntV(0)

\* C3 as stated: CALL at p, operand register holding A, decrements SP by 1,
\* stores p+2 at mem[SP] and sets PC to A; a later RET, while SP is the
\* post-CALL value and the cell still holds p+2, sets PC to p+2, restores the
\* pre-CALL SP and leaves the cell 0.  Stated for SP in 1..255.
C3_Original ==
  [][/\ (CallAt(7) /\ reg[SP].n \in 1..255) => CallEffect
     /\ RetOfCall => RetEffect]_vars

\* C3 as amended: the same, for a CALL whose operand register is one of
\* R0..R6 (not SP) and whose return-address cell SP-1 is not the CALL's own
\* operand byte at p+1.
C3_CallRet ==
  [][/\ (CallAt(6) /\ Slot(reg[SP].n - 1) # Slot(pc.n + 1)) => CallEffect
     /\ RetOfCall => RetEffect]_vars

\* CALL R0 at 6 to the RET at 9, and that RET, have run: control is at 8
C3_Witness ==
  /\ at = "while"
  /\ h2.op = CALL
  /\ h1.op = RET
  /\ lastCall = [p |-> 6, sp |-> InitSP - 1, made |-> TRUE]
  /\ h2.reg[0] = IntV(9)
  /\ h1.pc = IntV(9)
  /\ h1.ram[InitSP - 1] = IntV(8)
  /\ pc = IntV(8)
  /\ reg[SP] = IntV(InitSP)
  /\ ram[InitSP - 1] = IntV(0)

\* C4: one step executing COMP regA,regB leaves FL exactly 1 when a = b,
\* exactly 4 when a < b, exactly 2 when a > b, whatever FL was, and advances
\* PC by 3.
C4_CompFlags ==
  [][(AtOpcode(COMP) /\ ByteIn(M, 1, 0, 7) /\ ByteIn(M, 2, 0, 7))
       => /\ exc' = "none"
          /\ VEq(RegVal(M, 1), RegVal(M, 2)) => fl' = 1
          /\ VLt(RegVal(M, 1), RegVal(M, 2)) => fl' = 4
          /\ VLt(RegVal(M, 2), RegVal(M, 1)) => fl' = 2
          /\ fl' \in {1, 2, 4}
          /\ pc' = VAdd(pc, IntV(3))]_vars

\* a COMP of a smaller with a larger value has run while FL held Greater
C4_Witness ==
  /\ at = "while"
  /\ h1.op = COMP
  /\ h1.fl = 2
  /\ VLt(RegVal(h1, 1), RegVal(h1, 2))
  /\ fl = 4

\* C5: JEQ r sets PC to register r's value if bit 0 of FL is set and else
\* advances PC by 2; JNE r sets PC to register r's value if bit 0 of FL is
\* clear and else advances PC by 2; neither changes FL, registers or memory.
C5_Jumps ==
  [][/\ (AtOpcode(JEQ) /\ ByteIn(M, 1, 0, 7))
          => /\ exc' = "none"
             /\ pc' = IF fl % 2 = 1 THEN RegVal(M, 1) ELSE VAdd(pc, IntV(2))
             /\ UNCHANGED <<fl, reg, ram>>
     /\ (AtOpcode(JNE) /\ ByteIn(M, 1, 0, 7))
          => /\ exc' = "none"
             /\ pc' = IF fl % 2 = 0 THEN RegVal(M, 1) ELSE VAdd(pc, IntV(2))
             /\ UNCHANGED <<fl, reg, ram>>]_vars

\* a JNE has jumped while FL held Less-than alone
C5_Witness ==
  /\ at = "while"
  /\ h1.op = JNE
  /\ h1.fl = 4
  /\ pc = RegVal(h1, 1)
  /\ pc # VAdd(h1.pc, IntV(2))

\* C6: a step that executes DIV regA,regB while regB holds 0 halts the machine
\* in that step and writes no register and no memory cell; once halted, no
\* interrupt check, fetch or dispatch follows: run() returns.
C6_DivByZero ==
  [][/\ (AtOpcode(DIV) /\ ByteIn(M, 1, 0, 7) /\ ByteIn(M, 2, 0, 7)
           /\ VEq(RegVal(M, 2), IntV(0)))
          => /\ running
             /\ ~running'
             /\ exc' = "none"
             /\ UNCHANGED <<reg, ram>>
     /\ (at \in {"while", "returned"} /\ ~running)
          => /\ at' = "returned"
             /\ UNCHANGED <<ram, reg, pc, fl, running, out, exc, steps>>]_vars

\* DIV by a zero register was the last instruction of a run that has returned
C6_Witness ==
  /\ at = "returned"
  /\ h1.op = DIV
  /\ ByteIn(h1, 1, 0, 7)
  /\ ByteIn(h1, 2, 0, 7)
  /\ VEq(RegVal(h1, 2), IntV(0))
  /\ RegVal(h1, 1) = IntV(3)
  /\ reg = h1.reg
  /\ ~running
  /\ out = <<[fn |-> "alu", v |-> IntV(0)]>>

\* C7: in a step that starts with interrupts not disabled, bit 0 of IM set, at
\* least 1 second elapsed since the last-check time, SP = s and mem[0xF8] = X,
\* the interrupt phase writes PC to mem[s-1], FL to mem[s-2], R0..R5 to
\* mem[s-3] .. mem[s-8] and nothing else, leaves SP = s-8, sets PC to X, clears
\* IS and latches interrupts disabled.  Stated for the stacks whose eight
\* cells lie in memory and off the vector slot, s in 8..248.
C7_InterruptSave ==
  [][(/\ at = "while"
      /\ running
      /\ ~interrupts_disabled
      /\ ~reg[IM].f
      /\ reg[IM].n % 2 = 1
      /\ now' - last_time >= 1
      /\ ~reg[SP].f
      /\ reg[SP].n \in 8..Vector)
       => /\ exc' = "none"
          /\ ram' = [a \in 0..(RamSize - 1) |->
                       IF a = reg[SP].n - 1 THEN pc
                       ELSE IF a = reg[SP].n - 2 THEN IntV(fl)
                       ELSE IF a \in (reg[SP].n - 8)..(reg[SP].n - 3)
                         THEN reg[reg[SP].n - 3 - a]
                       ELSE ram[a]]
          /\ reg' = [reg EXCEPT ![SP] = IntV(reg[SP].n - 8), ![IS] = IntV(0)]
          /\ pc' = ram[Vector]
          /\ interrupts_disabled']_vars

\* C8: from the initial machine with 82 00 08 47 00 01 loaded at 0, the run
\* emits exactly one output, the decimal 8, and reaches Halted by executing
\* HLT after exactly three dispatched instructions, with R0 = 8: no state of
\* the run faults or stops short of the return, and the returned state is that.
C8_Print8 ==
  (program = Print8)
    => /\ exc = "none"
       /\ steps <= 3
       /\ interrupts_disabled = FALSE
       /\ at # "returned" => ENABLED Next
       /\ at = "returned"
            => /\ ~running
               /\ steps = 3
               /\ h2.op = PRN
               /\ h1.op = HLT
               /\ out = <<[fn |-> "prn", v |-> IntV(8)]>>
               /\ reg[0] = IntV(8)

\* the run of the hardcoded program has returned
C8_Witness ==
  /\ program = Print8
  /\ at = "returned"
  /\ steps = 3
  /\ out = <<[fn |-> "prn", v |-> IntV(8)]>>

\* C9: one step that executes PRA r emits the character whose code is
\* register r's value and advances PC by exactly 2.
C9_PraAdvances ==
  [][(/\ AtOpcode(PRA)
      /\ ByteIn(M, 1, 0, 7)
      /\ ~RegVal(M, 1).f
      /\ RegVal(M, 1).n \in 0..MaxChr)
       => /\ exc' = "none"
          /\ out' = Append(out, [fn |-> "pra", v |-> RegVal(M, 1)])
          /\ pc' = VAdd(pc, IntV(2))]_vars

\* C10: when the byte fetched at PC is none of the 20 opcodes of the dispatch
\* table, execution ends in a fault in that step: no handler runs, the
\* dispatch changes no register, memory cell, FL or PC, and no later step is
\* taken.
C10_IllegalOpcode ==
  [][/\ (/\ at = "dispatch"
         /\ steps < MaxSteps
         /\ CanFetch
         /\ \A op \in Opcodes : ~VEq(ram_read(M, pc), IntV(op)))
          => /\ exc' = "KeyError"
             /\ at' = "raised"
             /\ UNCHANGED <<ram, reg, pc, fl, running, interrupts_disabled,
                            last_time, out, steps, h1, h2>>
     /\ at = "raised" => UNCHANGED vars]_vars

\* a JMP to address 2, which holds the byte 2, has run and the fetch there
\* has ended the run in KeyError, the registers as the JMP left them
C10_Witness ==
  /\ at = "raised"
  /\ exc = "KeyError"
  /\ h1.op = JMP
  /\ pc = IntV(2)
  /\ ram_read(M, pc) = IntV(2)
  /\ reg = h1.reg
  /\ ram = h1.ram

\* an int that is no address of the 256 cells
Outside(v) == ~v.f /\ (v.n < 0 \/ v.n >= RamSize)

\* C11: a memory access at an address outside 0..255 fails with an
\* out-of-bounds fault and modifies no memory cell: the fetch at such a PC,
\* the write of PUSH and of CALL at such an SP-1, the read of POP and of RET
\* at such an SP, the write of ST at such a target, and the first push of the
\* interrupt context save at such an SP-1.
C11_OutOfBounds ==
  [][(\/ at = "dispatch" /\ steps < MaxSteps /\ Outside(pc)
      \/ /\ AtOpcode(PUSH) \/ AtOpcode(CALL)
         /\ ByteIn(M, 1, 0, 7)
         /\ Outside(VAdd(reg[SP], IntV(-1)))
      \/ /\ AtOpcode(POP) \/ AtOpcode(RET)
         /\ Outside(reg[SP])
      \/ /\ AtOpcode(ST)
         /\ ByteIn(M, 1, 0, 7)
         /\ ByteIn(M, 2, 0, 7)
         /\ Outside(RegVal(M, 1))
      \/ /\ at = "while"
         /\ running
         /\ Armed(M)
         /\ Seconds(now' - last_time) >= 1
         /\ Outside(VAdd(reg[SP], IntV(-1))))
       => /\ exc' = "IndexError"
          /\ at' = "raised"
          /\ ram' = ram]_vars

\* run() is over: it has returned, or an exception has left it
Terminal == at \in {"returned", "raised"}

\* the last handler run() called was HLT's, and run() then returned
EndedByHLT == at = "returned" /\ h1.op = HLT

\* C12: a terminal state shows whether the run ended by HLT or by a fault:
\* the running flag and the fault indication of a run that HLT ended are
\* (false, none), and no run ended otherwise (DIV by zero, illegal opcode,
\* out-of-bounds access) ends with that pair.
C12_Distinguishable ==
  Terminal
    => /\ EndedByHLT => (~running /\ exc = "none")
       /\ ~EndedByHLT => ~(~running /\ exc = "none")

\* an int in 0..255
InRange(v) == ~v.f /\ v.n \in 0..(RamSize - 1)

\* the opcodes whose first operand byte names a register
RegisterOps ==
  {LDI, PRN, PRA, ADD, MUL, DIV, COMP, PUSH, POP, CALL, JMP, JEQ, JNE, ST}

\* C13: in every reachable state PC and SP are within 0..255, and where an
\* instruction with a register operand is about to be dispatched the address
\* PC+1 of its operand byte is within 0..255 and the register index that
\* byte gives is within 0..7.
C13_InRange ==
  /\ InRange(pc)
  /\ InRange(reg[SP])
  /\ \A op \in RegisterOps :
       (at = "dispatch" /\ Fetched(op))
         => /\ InRange(OpAddr(M, 1))
            /\ Operand(M, 1).n \in 0..(NumRegs - 1)

\* C14: in every reachable state memory has exactly 256 cells and every cell
\* holds an unsigned 8-bit value: a number equal to one of 0..255.
C14_MemoryBytes ==
  /\ DOMAIN ram = 0..(RamSize - 1)
  /\ \A a \in 0..(RamSize - 1) : ram[a].d = 1 /\ ram[a].n \in 0..255

\* the register the low 3 bits of operand byte k select
LowBits(s, k) == Operand(s, k).n % NumRegs

\* C15: the register an instruction reads or writes is the one at index
\* b mod 8 of its operand byte b, for every b in 0..255: LDI b,v writes it,
\* JMP b reads it, ADD a,b reads both and writes the first.
C15_LowThreeBits ==
  [][/\ (AtOpcode(LDI) /\ ByteIn(M, 1, 0, 255) /\ ByteIn(M, 2, 0, 255))
          => /\ exc' = "none"
             /\ reg' = [reg EXCEPT ![LowBits(M, 1)] = Operand(M, 2)]
     /\ (AtOpcode(JMP) /\ ByteIn(M, 1, 0, 255))
          => /\ exc' = "none"
             /\ pc' = reg[LowBits(M, 1)]
     /\ (AtOpcode(ADD) /\ ByteIn(M, 1, 0, 255) /\ ByteIn(M, 2, 0, 255))
          => /\ exc' = "none"
             /\ reg' = [reg EXCEPT ![LowBits(M, 1)] =
                          VAdd(reg[LowBits(M, 1)], reg[LowBits(M, 2)])]]_vars

\* the values FL takes: clear, Equal, Greater-than, Less-than
FlagValues == {0, 1, 2, 4}

C17_OneDispatchPerCycle ==
  [][/\ (at = "while" /\ running)
          => /\ steps' = steps
             /\ at' \in {"dispatch", "raised"}
             /\ (irq' /\ exc' = "none")
                  => /\ ram'[Slot(reg[SP].n - 1)] = pc
                     /\ pc' = ram'[Vector]
     /\ at = "dispatch"
          => \/ /\ steps' = steps + 1
                /\ at' \in {"while", "raised"}
                /\ h1'.pc = pc
                /\ Fetched(h1'.op)
                /\ h1'.irq = irq
             \/ /\ FetchError # "none"
                /\ steps' = steps
                /\ at' = "raised"
     /\ at \in {"raised", "returned"} => UNCHANGED vars]_vars

\* the interrupt taken before the NOP at 6 saved PC = 6 at 0xF3, and the
\* one instruction dispatched in that cycle was the IRET at the vector's 9
C17_Witness ==
  /\ at = "while"
  /\ steps = 3
  /\ h1.irq
  /\ h1.op = IRET
  /\ h1.pc = IntV(9)
  /\ h1.ram[Vector] = IntV(9)
  /\ ram[InitSP - 1] = IntV(6)

\* the DIV about to be dispatched divides by zero
DivByZeroNext ==
  /\ Fetched(DIV)
  /\ OpErr(M, 1) = "none"
  /\ RegErr(M, 2) = "none"
  /\ VEq(RegVal(M, 2), IntV(0))

\* C18: the running flag is true from the start of run() until a step
\* executes HLT (or DIV with a zero divisor); the HLT step changes nothing
\* but the flag; and once the flag is false there is no further interrupt
\* check, fetch or dispatch: the one step left is run() returning.
C18_RunningFlag ==
  [][/\ (at \in {"while", "dispatch"} /\ running /\ ~running')
          => (at = "dispatch" /\ (Fetched(HLT) \/ DivByZeroNext))
     /\ (at = "loaded") => running'
     /\ (at = "dispatch" /\ Fetched(HLT))
          => /\ ~running'
             /\ exc' = "none"
             /\ UNCHANGED <<pc, reg, fl, ram, interrupts_disabled, last_time, out>>
     /\ (at \in {"while", "returned"} /\ ~running)
          => /\ at' = "returned"
             /\ UNCHANGED <<pc, reg, fl, ram, running, interrupts_disabled,
                            last_time, now, out, exc, steps, irq, h1>>]_vars

\* LDI R7,255 then HLT: the HLT at 3 cleared the flag and left the rest, and
\* run() has returned
C18_Witness ==
  /\ at = "returned"
  /\ ~running
  /\ steps = 2
  /\ h1.op = HLT
  /\ h1.pc = IntV(3)
  /\ pc = IntV(3)
  /\ reg = h1.reg
  /\ reg[SP] = IntV(255)
  /\ ram = h1.ram

\* the two operand bytes name registers and both registers hold ints
IntOperands ==
  /\ ByteIn(M, 1, 0, 7)
  /\ ByteIn(M, 2, 0, 7)
  /\ ~RegVal(M, 1).f
  /\ ~RegVal(M, 2).f

\* C19: ADD a,b and MUL a,b on int registers set register a to the exact
\* sum / product of the two values, unmasked, advance PC by 3 and leave every
\* other register, memory and FL unchanged, also when a = b.
C19_AddMulExact ==
  [][/\ (AtOpcode(ADD) /\ IntOperands)
          => /\ exc' = "none"
             /\ reg' = [reg EXCEPT ![Operand(M, 1).n] =
                          IntV(RegVal(M, 1).n + RegVal(M, 2).n)]
             /\ pc' = IntV(pc.n + 3)
             /\ ram' = ram
             /\ fl' = fl
     /\ (AtOpcode(MUL) /\ IntOperands)
          => /\ exc' = "none"
             /\ reg' = [reg EXCEPT ![Operand(M, 1).n] =
                          IntV(RegVal(M, 1).n * RegVal(M, 2).n)]
             /\ pc' = IntV(pc.n + 3)
             /\ ram' = ram
             /\ fl' = fl]_vars

\* ADD R1,R1 with R1 = 255 has left R1 = 510, above a byte, and PC at 9
C19_Witness ==
  /\ at = "while"
  /\ h1.op = ADD
  /\ Operand(h1, 1) = IntV(1)
  /\ Operand(h1, 2) = IntV(1)
  /\ h1.reg[1] = IntV(255)
  /\ reg[1] = IntV(510)
  /\ reg[0] = h1.reg[0]
  /\ pc = IntV(9)

====
